---- MODULE Spec2Model ----
(***************************************************************************)
(* Model of the hcpcsdata scraping scripts: the URL-anchor harvest loop    *)
(* (scrape_category / scrape_pharmacists / scrape_practitioners), the      *)
(* detail-page extraction (scrape_details), the header fetch and the       *)
(* offset-strategy harvest (scrape_pharmacists_paginated).                 *)
(*                                                                         *)
(* Text is a sequence of one-character strings, so that strip(), lower()   *)
(* and the substring test `in` are computed rather than assumed.           *)
(* Python's None is the value None below; a URL is <<path, query>>; the    *)
(* value of an href attribute is None or a parsed reference (see UrlJoin). *)
(***************************************************************************)
EXTENDS Integers, Sequences, FiniteSets, TLC

VARIABLES
    script,         \* which script runs: see Scripts
    inputs,         \* which set of server responses the run draws from
    pc,             \* position of the script
    current_url,    \* scrape_category: current_url
    page,           \* the parsed response being processed (soup)
    ri,             \* index of the next <tr> of the table to process
    all_data,       \* scrape_category: all_data
    fetched,        \* locators GET-requested by the harvest loop, in order
    served,         \* the responses to those requests, in order
    next_link,      \* scrape_category: next_link of the last pagination step
    result,         \* value returned by the harvest function
    header,         \* value returned by get_table_header
    frame,          \* main: how the DataFrame was built
    detail_resp,    \* response to the last detail-page GET
    details,        \* value returned by the last scrape_details call
    detail_url,     \* locator of the last detail-page GET
    header_resp,    \* response to the GET of get_table_header
    raised_by,      \* where an uncaught exception was raised
    o_start,        \* scrape_pharmacists_paginated main: start of the for loop
    o_total,        \* main: total_entries, as [found, value]
    o_rows,         \* main: all_data, as the chunks [start, n, width] of its rows
    o_requests,     \* the offsets scrape_page has requested, in order
    o_failed,       \* for each of them, whether scrape_page returned no data
    o_info,         \* the text get_total_entries was given: that of div.dataTables_info
    io,             \* the requests.get ("get") and time.sleep ("sleep") calls, in order
    h_groups,       \* scrape_all_groups: groups, the list it is called with
    h_requests,     \* the groups whose page scrape_hcpcs_codes has requested, in order
    h_served,       \* the responses to those requests, in order
    h_data          \* scrape_all_groups: group_data

harvestVars == <<script, inputs, pc, current_url,
                 page, ri, all_data, fetched, served, next_link, result, header,
                 frame, detail_resp, details, detail_url, header_resp, raised_by>>

offsetVars == <<o_start, o_total, o_rows, o_requests, o_failed, o_info>>

helloVars == <<h_groups, h_requests, h_served, h_data>>

vars == <<harvestVars, offsetVars, io, helloVars>>

----------------------------------------------------------------------------
(* Text *)

None == <<"<None>">>

UpperChars == <<"A","B","C","D","E","F","G","H","I","J","K","L","M",
                "N","O","P","Q","R","S","T","U","V","W","X","Y","Z">>
LowerChars == <<"a","b","c","d","e","f","g","h","i","j","k","l","m",
                "n","o","p","q","r","s","t","u","v","w","x","y","z">>

IsSpace(c) == c \in {" ", "\n", "\t"}

RECURSIVE LStrip(_)
LStrip(s) == IF s = <<>> THEN s
             ELSE IF IsSpace(Head(s)) THEN LStrip(Tail(s)) ELSE s

RECURSIVE RStrip(_)
RStrip(s) == IF s = <<>> THEN s
             ELSE IF IsSpace(s[Len(s)]) THEN RStrip(SubSeq(s, 1, Len(s) - 1)) ELSE s

\* str.strip() and get_text(strip=True) of an element holding one text node
Strip(s) == RStrip(LStrip(s))

LowerChar(c) == IF \E i \in 1..26 : UpperChars[i] = c
                THEN LowerChars[CHOOSE i \in 1..26 : UpperChars[i] = c]
                ELSE c

\* str.lower()
Lower(s) == [i \in 1..Len(s) |-> LowerChar(s[i])]

\* needle in hay
Contains(hay, needle) ==
    \E i \in 0..(Len(hay) - Len(needle)) : SubSeq(hay, i + 1, i + Len(needle)) = needle

\* truth value of a str-or-None
Truthy(v) == v # None /\ v # <<>>

----------------------------------------------------------------------------
(* URLs and href attributes *)

\* An href is None (no attribute) or <<kind, path, query>>:
\*   "abs"   an absolute URL            "path"  a relative path
\*   "query" a query-only reference     "empty" the empty string
HrefTruthy(h) == h # None /\ h[1] # "empty"

\* urllib.parse.urljoin(base, href); urljoin(base, None) and urljoin(base, "")
\* give base
UrlJoin(base, h) ==
    IF h = None THEN base
    ELSE CASE h[1] = "abs"   -> <<h[2], h[3]>>
           [] h[1] = "query" -> <<base[1], h[3]>>
           [] h[1] = "path"  -> <<h[2], "">>
           [] OTHER          -> base

SeedUrl == <<"r", "">>

----------------------------------------------------------------------------
(* Pages *)

\* A main-page response is
\*   [outcome, has_table, rows, anchors]
\* outcome: "ok" (status 200), "status" (another status), "raise" (requests.get
\* raises); rows: the <tr> of the first table, each a sequence of cells
\* [tag, text, anchors], a cell anchor being [marker, href] (marker: the anchor
\* has class "btn btn-info"); anchors: the page's other anchors in document
\* order, each [in_paginate, text, classes, rel_next, href].
NoPage == [outcome |-> "none", has_table |-> FALSE, rows |-> <<>>, anchors |-> <<>>]

\* A detail-page response is [outcome, has_table, rows, groups]; a row is
\* [ncells, label, text, input], input being [present, has_value, value];
\* a group (div.form-group) is [has_label, label, has_div, value].
NoDetailResp == [outcome |-> "none", has_table |-> FALSE, rows |-> <<>>, groups |-> <<>>]

Scripts == {"practitioners", "register", "logs", "details", "fullname"}
PlainScripts == {"practitioners", "register"}
EnrichedScripts == {"logs", "details"}

----------------------------------------------------------------------------
(* Pagination: the next link of a page *)

T_next == <<"n","e","x","t">>

\* IsNextAnchor with a defect: the anchor is looked for in the whole page
IsNextAnchorAnywhere(a) == a.text # <<>> /\ Contains(Lower(a.text), T_next)

\* paginate.find("a", string=lambda text: text and "next" in text.lower())
IsNextAnchor(a) == a.in_paginate /\ a.text # <<>> /\ Contains(Lower(a.text), T_next)

First(S) == CHOOSE i \in S : \A j \in S : i <= j

\* the first block: the "Next" anchor of div.dataTables_paginate
PaginateLink(anchors, cur) ==
    LET cand == {i \in 1..Len(anchors) : IsNextAnchor(anchors[i])}
    IN  IF cand = {} THEN None
        ELSE LET a == anchors[First(cand)]
             IN  IF "disabled" \notin a.classes /\ HrefTruthy(a.href)
                 THEN UrlJoin(cur, a.href) ELSE None

\* the second block: soup.find("a", rel="next"), over the whole page
RelNextLink(anchors, cur) ==
    LET cand == {i \in 1..Len(anchors) : anchors[i].rel_next}
    IN  IF cand = {} THEN None
        ELSE LET a == anchors[First(cand)]
             IN  IF HrefTruthy(a.href) THEN UrlJoin(cur, a.href) ELSE None

NextLink(anchors, cur) ==
    IF PaginateLink(anchors, cur) # None THEN PaginateLink(anchors, cur)
    ELSE RelNextLink(anchors, cur)

\* ShouldContinue with a defect: the comparison with current_url is missing
ShouldContinueAnyLink(nl, cur) == nl # None

\* if next_link and next_link != current_url
ShouldContinue(nl, cur) == nl # None /\ nl # cur

----------------------------------------------------------------------------
(* Rows of the main table *)

\* row.find_all("td")
Cols(row) == SelectSeq(row, LAMBDA c : c.tag = "td")

\* [col.get_text(strip=True) for col in cols]
RawCells(cols) == [i \in 1..Len(cols) |-> Strip(cols[i].text)]

Front(s) == SubSeq(s, 1, Len(s) - 1)

\* last_cell.find("a", class_="btn btn-info")
HasMarker(cell) == \E i \in 1..Len(cell.anchors) : cell.anchors[i].marker
MarkerAnchor(cell) ==
    cell.anchors[First({i \in 1..Len(cell.anchors) : cell.anchors[i].marker})]

\* whether the row's detail page is fetched
FollowsDetail(sc, cell) ==
    CASE sc = "logs"     -> HasMarker(cell) /\ HrefTruthy(cell.anchors[1].href)
      [] sc = "details"  -> cell.anchors # <<>> /\ HrefTruthy(cell.anchors[1].href)
      [] sc = "fullname" -> HasMarker(cell)
      [] OTHER           -> FALSE

\* the href joined to current_url to give the detail link
DetailHref(sc, cell) ==
    CASE sc = "fullname" -> MarkerAnchor(cell).href
      [] OTHER           -> cell.anchors[1].href

\* the row before the detail fields are appended
RowBase(sc, cols) ==
    CASE sc = "logs"     -> IF HasMarker(cols[Len(cols)])
                            THEN Front(RawCells(cols)) ELSE RawCells(cols)
      [] sc = "fullname" -> <<Strip(cols[1].text)>>
      [] OTHER           -> RawCells(cols)

\* AppendRow with a defect: the row is put in front
PrependRow(data, row) == <<row>> \o data

\* all_data.append(row_data)
AppendRow(data, row) == Append(data, row)

\* the fields appended to the row; d is the value of scrape_details
DetailFields(sc, follows, d) ==
    CASE sc \in PlainScripts -> <<>>
      [] sc = "fullname"     -> <<IF follows THEN d.Licence_No ELSE None>>
      [] OTHER               -> IF follows
                                THEN <<d.Practice_Type, d.Licence_Type, d.Licence_No>>
                                ELSE <<None, None, None>>

----------------------------------------------------------------------------
(* scrape_details *)

T_practice_type == <<"p","r","a","c","t","i","c","e"," ","t","y","p","e">>
T_licence_type  == <<"l","i","c","e","n","c","e"," ","t","y","p","e">>
T_license_type  == <<"l","i","c","e","n","s","e"," ","t","y","p","e">>
T_licence_no    == <<"l","i","c","e","n","c","e"," ","n","o">>
T_license_no    == <<"l","i","c","e","n","s","e"," ","n","o">>

\* {"Practice_Type": None, "Licence_Type": None, "Licence_No": None}
AbsentRecord == [Practice_Type |-> None, Licence_Type |-> None, Licence_No |-> None]

\* what scrape_details returns when the fetch fails
AbsentDetails(sc) == IF sc = "fullname" THEN [Licence_No |-> None] ELSE AbsentRecord

\* the value raised out of a call instead of returned
RaisedExc == [raised |-> TRUE]

\* AssignField with a defect: only the spelling "licence no" is looked for
AssignFieldOneSpelling(d, label, value) ==
    IF Contains(label, T_practice_type) THEN [d EXCEPT !.Practice_Type = value]
    ELSE IF Contains(label, T_licence_type) \/ Contains(label, T_license_type)
         THEN [d EXCEPT !.Licence_Type = value]
    ELSE IF Contains(label, T_licence_no)
         THEN [d EXCEPT !.Licence_No = value]
    ELSE d

\* the if / elif chain on the lower-cased label
AssignField(d, label, value) ==
    IF Contains(label, T_practice_type) THEN [d EXCEPT !.Practice_Type = value]
    ELSE IF Contains(label, T_licence_type) \/ Contains(label, T_license_type)
         THEN [d EXCEPT !.Licence_Type = value]
    ELSE IF Contains(label, T_licence_no) \/ Contains(label, T_license_no)
         THEN [d EXCEPT !.Licence_No = value]
    ELSE d

\* the value of a table row: the input's value attribute when the script looks
\* for one and the cell has one, else the cell's text
CellValue(sc, row) ==
    IF sc \in {"logs", "fullname"} /\ row.input.present /\ row.input.has_value
    THEN Strip(row.input.value)
    ELSE Strip(row.text)

\* for row in rows: ... (rows with fewer than two cells are skipped)
RECURSIVE TableFold(_, _, _)
TableFold(sc, rows, d) ==
    IF rows = <<>> THEN d
    ELSE LET row == Head(rows)
         IN  IF row.ncells < 2 THEN TableFold(sc, Tail(rows), d)
             ELSE TableFold(sc, Tail(rows),
                            AssignField(d, Lower(Strip(row.label)), CellValue(sc, row)))

\* for group in groups: ... (the div.form-group fallback of scrape_practitioners_with_logs)
RECURSIVE GroupFold(_, _)
GroupFold(groups, d) ==
    IF groups = <<>> THEN d
    ELSE LET g == Head(groups)
         IN  IF g.has_label /\ g.has_div
             THEN GroupFold(Tail(groups),
                            AssignField(d, Lower(Strip(g.label)), Strip(g.value)))
             ELSE GroupFold(Tail(groups), d)

\* any(details.values())
AnyValue(d) == Truthy(d.Practice_Type) \/ Truthy(d.Licence_Type) \/ Truthy(d.Licence_No)

\* scrape_fullname_license: the first row whose label names the licence number
RECURSIVE FirstLicenceNo(_, _)
FirstLicenceNo(sc, rows) ==
    IF rows = <<>> THEN None
    ELSE LET row == Head(rows)
             label == Lower(Strip(row.label))
         IN  IF row.ncells >= 2
                /\ (Contains(label, T_licence_no) \/ Contains(label, T_license_no))
             THEN CellValue(sc, row)
             ELSE FirstLicenceNo(sc, Tail(rows))

\* the part of scrape_details after the status check
ExtractDetails(sc, resp) ==
    CASE sc = "logs" ->
           LET d1 == IF resp.has_table THEN TableFold(sc, resp.rows, AbsentRecord)
                     ELSE AbsentRecord
           IN  IF resp.has_table /\ AnyValue(d1) THEN d1
               ELSE GroupFold(resp.groups, d1)
      [] sc = "fullname" ->
           [Licence_No |-> IF resp.has_table THEN FirstLicenceNo(sc, resp.rows) ELSE None]
      [] OTHER -> TableFold(sc, resp.rows, AbsentRecord)

\* ScrapeDetails with a defect: requests.get is not inside try / except
ScrapeDetailsUncaught(sc, resp) ==
    IF resp.outcome = "raise" THEN RaisedExc
    ELSE IF resp.outcome = "status" THEN AbsentDetails(sc)
    ELSE ExtractDetails(sc, resp)

\* ScrapeDetails with a defect: the body of a non-200 response is parsed
ScrapeDetailsNoStatusCheck(sc, resp) ==
    IF resp.outcome = "raise" THEN AbsentDetails(sc) ELSE ExtractDetails(sc, resp)

\* scrape_details(detail_url), resp being the response to its GET
ScrapeDetails(sc, resp) ==
    IF resp.outcome = "raise" THEN AbsentDetails(sc)
    ELSE IF resp.outcome = "status" THEN AbsentDetails(sc)
    ELSE ExtractDetails(sc, resp)

----------------------------------------------------------------------------
(* get_table_header and the DataFrame of main *)

T_view == <<"v","i","e","w">>
DetailColumns == << <<"P","r","a","c","t","i","c","e","_","T","y","p","e">>,
                    <<"L","i","c","e","n","c","e","_","T","y","p","e">>,
                    <<"L","i","c","e","n","c","e","_","N","o">> >>

\* the value of get_table_header: [found, cols]; found = FALSE is None.
\* The status code of the response is not looked at.
NoHeader == [found |-> FALSE, cols |-> <<>>]

TableHeader(sc, resp) ==
    IF ~resp.has_table \/ resp.rows = <<>> THEN NoHeader
    ELSE LET cells == [i \in 1..Len(resp.rows[1]) |-> Strip(resp.rows[1][i].text)]
         IN  CASE sc = "logs" ->
                    [found |-> TRUE,
                     cols  |-> (IF cells # <<>> /\ Lower(cells[Len(cells)]) = T_view
                                THEN Front(cells) ELSE cells) \o DetailColumns]
               [] sc = "details" -> [found |-> TRUE, cols |-> cells \o DetailColumns]
               [] OTHER -> [found |-> TRUE, cols |-> cells]

\* the number of columns pandas gives a list of rows: the longest row
RECURSIVE DataWidth(_)
DataWidth(data) ==
    IF data = <<>> THEN 0
    ELSE LET w == DataWidth(Tail(data))
         IN  IF Len(Head(data)) > w THEN Len(Head(data)) ELSE w

\* pd.DataFrame(data, columns=header) raises ValueError unless the header has
\* as many names as the data has columns
FrameAccepts(data, hdr) == Len(hdr.cols) = DataWidth(data)

----------------------------------------------------------------------------
(* Inputs: the responses a run may be served *)

MaxFetchPaging == 3     \* main-page GETs of one run under SpecPaging
MaxFetchTables == 2     \* main-page GETs of one run under SpecTables

X_a    == <<"a">>
X_b    == <<" ","b"," ">>
X_Name == <<"N","a","m","e">>
X_View == <<"V","i","e","w">>
X_Lic  == <<"L","i","c">>
X_Next == <<"N","e","x","t">>
X_Prev == <<"P","r","e","v">>

TH(t) == [tag |-> "th", text |-> t, anchors |-> <<>>]
TD(t) == [tag |-> "td", text |-> t, anchors |-> <<>>]
TDA(t, as) == [tag |-> "td", text |-> t, anchors |-> as]

H_detail == <<"path", "d", "">>
H_other  == <<"path", "e", "">>

Hdr_View == <<TH(X_Name), TH(X_View)>>
Hdr_Lic  == <<TH(X_Name), TH(X_Lic)>>

Row_Plain  == <<TD(X_b), TD(<<>>)>>
Row_Link   == <<TD(X_a), TDA(X_View, <<[marker |-> TRUE, href |-> H_detail]>>)>>
Row_Other  == <<TD(X_a), TDA(X_View, <<[marker |-> FALSE, href |-> H_other],
                                       [marker |-> TRUE, href |-> H_detail]>>)>>
Row_NoHref == <<TD(X_b), TDA(X_View, <<[marker |-> TRUE, href |-> None]>>)>>
Row_Th     == <<TH(X_a)>>
Row_One    == <<TD(X_a)>>

RowSeqs == { <<Row_Link, Row_Plain>>, <<Row_Plain>>, <<Row_Other>>,
             <<Row_NoHref, Row_Th>>, <<Row_Th, Row_One>>, <<>> }

Tables == {<<h>> \o rs : h \in {Hdr_View, Hdr_Lic}, rs \in RowSeqs} \cup {<<>>}

NextAnchor(cls, rel, h) ==
    [in_paginate |-> TRUE, text |-> X_Next, classes |-> cls, rel_next |-> rel, href |-> h]
PrevAnchor(h) ==
    [in_paginate |-> TRUE, text |-> X_Prev, classes |-> {}, rel_next |-> FALSE, href |-> h]
RelAnchor(h) ==
    [in_paginate |-> FALSE, text |-> X_Next, classes |-> {}, rel_next |-> TRUE, href |-> h]
\* a "Next" anchor outside the pagination container, without rel="next"
OutsideAnchor(h) ==
    [in_paginate |-> FALSE, text |-> X_Next, classes |-> {}, rel_next |-> FALSE, href |-> h]

OkPage(rows, anchors) ==
    [outcome |-> "ok", has_table |-> TRUE, rows |-> rows, anchors |-> anchors]

FailedPages ==
    { [outcome |-> "status", has_table |-> FALSE, rows |-> <<>>, anchors |-> <<>>],
      [outcome |-> "status", has_table |-> TRUE, rows |-> <<Hdr_Lic, Row_One>>, anchors |-> <<>>],
      [outcome |-> "raise", has_table |-> FALSE, rows |-> <<>>, anchors |-> <<>>],
      [outcome |-> "ok", has_table |-> FALSE, rows |-> <<>>, anchors |-> <<>>] }

\* SpecTables: many tables, few pagination links
TablePages ==
    {OkPage(t, as) : t \in Tables,
                     as \in { <<>>, <<NextAnchor({}, FALSE, <<"query", "", "p2">>)>>,
                              <<NextAnchor({}, FALSE, <<"path", "s", "">>)>> }}
    \cup FailedPages

\* SpecPaging: many pagination links, few tables
PagingHrefs == {None, <<"query", "", "p2">>, <<"path", "r", "">>, <<"abs", "s", "">>}
PagingNextAnchors ==
    {NextAnchor(cls, rel, h) : cls \in {{}, {"disabled"}}, rel \in BOOLEAN, h \in PagingHrefs}
PagingRelAnchors == {RelAnchor(h) : h \in PagingHrefs}
PagingAnchorSeqs ==
    {<<>>} \cup {<<a>> : a \in PagingNextAnchors \cup PagingRelAnchors}
           \cup {<<a, b>> : a \in PagingNextAnchors, b \in PagingRelAnchors}
           \cup {<<b, a>> : a \in PagingNextAnchors, b \in PagingRelAnchors}
           \cup {<<PrevAnchor(<<"path", "r", "">>), a>> : a \in PagingNextAnchors}
           \cup {<<PrevAnchor(<<"query", "", "p2">>)>>, <<OutsideAnchor(<<"query", "", "p2">>)>>}
PagingPages ==
    {OkPage(t, as) : t \in {<<Hdr_Lic, Row_One>>, <<Hdr_Lic, Row_Plain, Row_Th, Row_One>>},
                     as \in PagingAnchorSeqs}
    \cup FailedPages

DRow(n, label, text) ==
    [ncells |-> n, label |-> label, text |-> text,
     input |-> [present |-> FALSE, has_value |-> FALSE, value |-> <<>>]]
DRowInput(n, label, text, v) ==
    [ncells |-> n, label |-> label, text |-> text,
     input |-> [present |-> TRUE, has_value |-> TRUE, value |-> v]]

L_LicenseNo == <<"L","i","c","e","n","s","e"," ","N","o",".">>
L_Name      == <<"N","a","m","e">>
V_PH        == <<"P","H","-","1">>

DetailOk(rows, groups) ==
    [outcome |-> "ok", has_table |-> TRUE, rows |-> rows, groups |-> groups]

\* the detail responses of the harvest specifications
HarvestDetailPages ==
    { [outcome |-> "raise", has_table |-> FALSE, rows |-> <<>>, groups |-> <<>>],
      [outcome |-> "status", has_table |-> TRUE,
       rows |-> <<DRow(2, L_LicenseNo, V_PH)>>, groups |-> <<>>],
      DetailOk(<<DRow(2, L_Name, X_a)>>, <<>>),
      DetailOk(<<DRow(2, L_LicenseNo, V_PH)>>, <<>>) }

----------------------------------------------------------------------------
(* The scripts: scrape_category and main *)

NoDetails == [called |-> FALSE]

NoTotal == [found |-> FALSE, value |-> 0]

\* the variables of the offset-strategy script, in the runs of the other scripts
OffsetIdle ==
    /\ o_start = 0
    /\ o_total = NoTotal
    /\ o_rows = <<>>
    /\ o_requests = <<>>
    /\ o_failed = <<>>
    /\ o_info = None

GroupNames == {"A", "B"}

\* group_data = {}: a dict is a function over the group names, each either
\* absent from the dict or present with its list of codes
NoGroupData == [g \in GroupNames |-> [present |-> FALSE, codes |-> <<>>]]

\* the variables of hello.py, in the runs of the other scripts
HelloIdle ==
    /\ h_groups = <<>>
    /\ h_requests = <<>>
    /\ h_served = <<>>
    /\ h_data = NoGroupData

\* responses the server may give for a main-page GET
MainFixtures == IF inputs = "paging" THEN PagingPages ELSE TablePages
\* responses the server may give for a detail-page GET
DetailFixtures == HarvestDetailPages
\* cap on the main-page GETs of one run
MaxFetch == IF inputs = "paging" THEN MaxFetchPaging ELSE MaxFetchTables

HarvestInit(scs, inp) ==
    /\ script \in scs
    /\ inputs = inp
    /\ pc = "fetch"
    /\ current_url = SeedUrl
    /\ page = NoPage
    /\ ri = 0
    /\ all_data = <<>>
    /\ fetched = <<>>
    /\ served = <<>>
    /\ next_link = None
    /\ result = <<>>
    /\ header = NoHeader
    /\ frame = "none"
    /\ detail_resp = NoDetailResp
    /\ details = NoDetails
    /\ detail_url = None
    /\ header_resp = NoPage
    /\ raised_by = "none"
    /\ OffsetIdle
    /\ io = <<>>
    /\ HelloIdle

\* The top of the while loop: the GET of current_url, the status check and the
\* search for the table.
FetchPage ==
    /\ pc = "fetch"
    /\ Len(fetched) < MaxFetch
    /\ io' = Append(io, "get")
    /\ \E resp \in MainFixtures :
        /\ fetched' = Append(fetched, current_url)
        /\ served' = Append(served, [resp EXCEPT !.anchors = <<>>])
        /\ IF resp.outcome = "raise"
           THEN /\ pc' = "raised"
                /\ raised_by' = "scrape"
                /\ UNCHANGED <<page, ri, result>>
           ELSE IF resp.outcome # "ok" \/ ~resp.has_table
           THEN /\ pc' = "returned"
                /\ result' = all_data
                /\ UNCHANGED <<page, ri, raised_by>>
           ELSE /\ pc' = "rows"
                /\ page' = resp
                /\ ri' = 2          \* rows[1:]: the first <tr> is the header
                /\ UNCHANGED <<result, raised_by>>
    /\ UNCHANGED <<script, inputs, current_url, all_data,
                   next_link, header, frame, detail_resp, details, detail_url, header_resp,
                   offsetVars, helloVars>>

\* the calls one row makes: the GET of scrape_details and, in
\* scrape_fullname_license, the sleep after it
DetailCalls(sc, follows) ==
    IF ~follows THEN <<>>
    ELSE IF sc = "fullname" THEN <<"get", "sleep">> ELSE <<"get">>

\* One iteration of `for row in rows[1:]`, the call of scrape_details included.
ProcessRow ==
    /\ pc = "rows"
    /\ ri <= Len(page.rows)
    /\ LET cols == Cols(page.rows[ri])
       IN  IF cols = <<>>
           THEN /\ ri' = ri + 1
                /\ UNCHANGED <<pc, all_data, detail_resp, details, detail_url, raised_by, io>>
           ELSE LET last    == cols[Len(cols)]
                    follows == FollowsDetail(script, last)
                IN  \E dresp \in (IF follows THEN DetailFixtures ELSE {NoDetailResp}) :
                      LET d == IF follows THEN ScrapeDetails(script, dresp) ELSE NoDetails
                      IN  /\ detail_resp' = dresp
                          /\ detail_url' = IF follows
                                           THEN UrlJoin(current_url, DetailHref(script, last))
                                           ELSE None
                          /\ details' = d
                          /\ IF d = RaisedExc
                             THEN /\ pc' = "raised"
                                  /\ raised_by' = "details"
                                  /\ io' = Append(io, "get")
                                  /\ UNCHANGED <<ri, all_data>>
                             ELSE /\ all_data' = AppendRow(all_data,
                                        RowBase(script, cols) \o DetailFields(script, follows, d))
                                  /\ ri' = ri + 1
                                  /\ io' = io \o DetailCalls(script, follows)
                                  /\ UNCHANGED <<pc, raised_by>>
    /\ UNCHANGED <<script, inputs, current_url, page,
                   fetched, served, next_link, result, header, frame, header_resp, offsetVars, helloVars>>

\* The end of the loop body: the search for the next link, then either the
\* move to it (and the sleep) or the break and the return of all_data.
Paginate ==
    /\ pc = "rows"
    /\ ri > Len(page.rows)
    /\ next_link' = NextLink(page.anchors, current_url)
    /\ IF ShouldContinue(next_link', current_url)
       THEN /\ current_url' = next_link'
            /\ pc' = "fetch"
            /\ io' = Append(io, "sleep")
            /\ UNCHANGED result
       ELSE /\ pc' = "returned"
            /\ result' = all_data
            /\ UNCHANGED <<current_url, io>>
    /\ page' = NoPage
    /\ ri' = 0
    /\ detail_resp' = NoDetailResp
    /\ details' = NoDetails
    /\ detail_url' = None
    /\ UNCHANGED <<script, inputs, all_data, fetched,
                   served, header, frame, header_resp, raised_by, offsetVars, helloVars>>

\* what the GET of get_table_header may be answered: it asks for the seed URL
\* again, and gets the page the harvest got there or a failure
HeaderResponses == {served[1]} \cup {f \in MainFixtures : f.outcome # "ok" \/ ~f.has_table}

\* main: header = get_table_header(url). scrape_fullname_license has none.
GetHeader ==
    /\ pc = "returned"
    /\ script # "fullname"
    /\ io' = Append(io, "get")
    /\ \E resp \in HeaderResponses :
        IF resp.outcome = "raise"
        THEN /\ pc' = "raised"
             /\ raised_by' = "header"
             /\ UNCHANGED <<header, header_resp>>
        ELSE /\ pc' = "header"
             /\ header' = TableHeader(script, resp)
             /\ header_resp' = [resp EXCEPT !.anchors = <<>>]
             /\ UNCHANGED raised_by
    /\ UNCHANGED <<script, inputs, current_url, page, ri,
                   all_data, fetched, served, next_link, result, frame, detail_resp,
                   details, detail_url, offsetVars, helloVars>>

\* main: the construction of the DataFrame that is written out.
BuildFrame ==
    /\ pc = "header" \/ (pc = "returned" /\ script = "fullname")
    /\ IF script = "fullname"
       THEN /\ frame' = (IF result = <<>> THEN "empty" ELSE "labeled")
            /\ pc' = "done"
            /\ UNCHANGED raised_by
       ELSE IF header.found /\ header.cols # <<>> /\ result # <<>>
       THEN IF FrameAccepts(result, header)
            THEN /\ frame' = "labeled"
                 /\ pc' = "done"
                 /\ UNCHANGED raised_by
            ELSE CASE script = "register" ->
                        /\ frame' = "unlabeled"
                        /\ pc' = "done"
                        /\ UNCHANGED raised_by
                   [] script = "logs" ->
                        /\ frame' = "skipped"
                        /\ pc' = "done"
                        /\ UNCHANGED raised_by
                   [] OTHER ->
                        /\ pc' = "raised"
                        /\ raised_by' = "frame"
                        /\ UNCHANGED frame
       ELSE /\ frame' = (IF result # <<>> THEN "unlabeled" ELSE "empty")
            /\ pc' = "done"
            /\ UNCHANGED raised_by
    /\ UNCHANGED <<script, inputs, current_url, page, ri,
                   all_data, fetched, served, next_link, result, header, detail_resp,
                   details, detail_url, header_resp, offsetVars, helloVars>>
    /\ io' = IF script \in {"practitioners", "logs", "details"}
                /\ pc' = "done" /\ frame' # "skipped"
             THEN Append(io, "sleep") ELSE io

HarvestNext == FetchPage \/ ProcessRow \/ Paginate \/ GetHeader \/ BuildFrame

InitPaging == HarvestInit({"practitioners", "register", "logs"}, "paging")
InitTables == HarvestInit(Scripts, "tables")

SpecPaging == InitPaging /\ [][HarvestNext]_vars
SpecTables == InitTables /\ [][HarvestNext]_vars

----------------------------------------------------------------------------
(* Properties of the URL-anchor harvest loop *)

\* the response made the loop break before any row was read
FailedResp(r) == r.outcome = "status" \/ (r.outcome = "ok" /\ ~r.has_table)

\* the harvest function has returned to main
Returned == pc \in {"returned", "header", "done"} \/ (pc = "raised" /\ raised_by # "scrape")

\* the rows a page contributes, read off the table: every <tr> after the
\* first that holds a <td>, as the trimmed texts of its <td> cells
RECURSIVE TdTexts(_)
TdTexts(row) ==
    IF row = <<>> THEN <<>>
    ELSE IF Head(row).tag = "td" THEN <<Strip(Head(row).text)>> \o TdTexts(Tail(row))
    ELSE TdTexts(Tail(row))

RECURSIVE TableDataRows(_, _)
TableDataRows(rows, i) ==
    IF i > Len(rows) THEN <<>>
    ELSE IF TdTexts(rows[i]) = <<>> THEN TableDataRows(rows, i + 1)
    ELSE <<TdTexts(rows[i])>> \o TableDataRows(rows, i + 1)

RECURSIVE DataRowsOfPages(_, _)
DataRowsOfPages(pages, upto) ==
    IF upto = 0 THEN <<>>
    ELSE DataRowsOfPages(pages, upto - 1) \o TableDataRows(pages[upto].rows, 2)

\* C1 (as claimed): the harvest loop never fetches a page locator it has
\* already fetched in the same run.
C1_NeverRefetches ==
    \A i, j \in 1..Len(fetched) : i # j => fetched[i] # fetched[j]

\* C2: when the resolved next locator of the page equals the current locator,
\* the loop stops after that page: it returns the rows collected so far and
\* the loop issues no further fetch.
C2_SelfLinkStops ==
    [][ /\ (pc = "rows" /\ ri > Len(page.rows)
            /\ NextLink(page.anchors, current_url) = current_url)
           => (pc' = "returned" /\ result' = all_data /\ fetched' = fetched)
        /\ Returned => fetched' = fetched ]_vars

C2_Witness ==
    /\ pc = "returned"
    /\ next_link = current_url
    /\ served[Len(served)].outcome = "ok"
    /\ served[Len(served)].has_table
    /\ result # <<>>

\* the "Next" anchor found in the pagination container is marked disabled
DisabledNextFound(anchors) ==
    LET cand == {i \in 1..Len(anchors) : IsNextAnchor(anchors[i])}
    IN  cand # {} /\ "disabled" \in anchors[First(cand)].classes

\* C3 (as claimed): when the "Next" anchor of the pagination container is
\* marked disabled, the run ends after the current page.
C3_DisabledNextStops ==
    [][ (pc = "rows" /\ ri > Len(page.rows) /\ DisabledNextFound(page.anchors))
        => pc' = "returned" ]_vars

\* C4: a fetch that returns a non-success status or a page without a table is
\* the last fetch of the loop, and the rows returned are the data rows of the
\* pages before it, in page order and in table row order.
C4_FailureKeepsRows ==
    script \in PlainScripts =>
        \A k \in 1..Len(served) :
            FailedResp(served[k]) =>
                /\ k = Len(served)
                /\ Returned
                /\ result = DataRowsOfPages(served, k - 1)

C4_Witness ==
    /\ script \in PlainScripts
    /\ pc = "returned"
    /\ Len(served) = 3
    /\ FailedResp(served[3])
    /\ Len(result) >= 3
    /\ result[1] # result[Len(result)]

\* C6 (as claimed): no failure escapes as an exception.
C6_NoExceptionEscapes == pc # "raised"

\* the page has no anchor with "next" in its text in the pagination container
\* and no anchor with rel="next"
NoNextAnchor(anchors) ==
    \A i \in 1..Len(anchors) :
        /\ ~(anchors[i].in_paginate /\ Contains(Lower(anchors[i].text), T_next))
        /\ ~anchors[i].rel_next

\* C16: for a single page whose table has a header row and n data rows, with
\* no "next" anchor in a pagination container and no rel="next" anchor, the
\* harvest loop returns exactly those n rows (the header row excluded, rows
\* with no data cell skipped) and has issued exactly one page fetch.
C16_SinglePageReturnsItsRows ==
    [][ (script \in PlainScripts /\ pc = "rows" /\ ri > Len(page.rows)
         /\ Len(fetched) = 1 /\ NoNextAnchor(page.anchors))
        => /\ pc' = "returned"
           /\ result' = TableDataRows(page.rows, 2)
           /\ fetched' = <<SeedUrl>> ]_vars

C16_Witness ==
    /\ script \in PlainScripts
    /\ pc = "rows"
    /\ ri > Len(page.rows)
    /\ Len(fetched) = 1
    /\ NoNextAnchor(page.anchors)
    /\ page.anchors # <<>>
    /\ Len(page.rows) = 4
    /\ Len(all_data) = 2

\* C14 (as claimed): between any two consecutive HTTP requests of a run a
\* delay step occurs: no requests.get directly follows another one.
C14_SleepBetweenRequests ==
    \A i \in 1..(Len(io) - 1) : ~(io[i] = "get" /\ io[i + 1] = "get")

\* main has gone past the construction of the DataFrame
FrameStepDone == pc = "done" \/ (pc = "raised" /\ raised_by = "frame")

\* the rows cannot be labelled with the header: their lengths differ
CannotLabel ==
    header.found /\ header.cols # <<>> /\ result # <<>> /\ ~FrameAccepts(result, header)

\* C15 (as claimed): when the harvested rows cannot be labelled with the
\* header because their lengths differ, main writes them as an unlabeled,
\* positional table: the run does not fail and the rows are not dropped.
C15_MismatchGivesUnlabeled ==
    (FrameStepDone /\ CannotLabel) => (pc = "done" /\ frame = "unlabeled")

----------------------------------------------------------------------------
(* Properties of the enriched harvest *)

\* the <tr> of the served pages that hold a <td>, as their <td> cells, in order
RECURSIVE SourceRowsOfTable(_, _)
SourceRowsOfTable(rows, i) ==
    IF i > Len(rows) THEN <<>>
    ELSE IF Cols(rows[i]) = <<>> THEN SourceRowsOfTable(rows, i + 1)
    ELSE <<Cols(rows[i])>> \o SourceRowsOfTable(rows, i + 1)

RECURSIVE SourceRows(_, _)
SourceRows(pages, upto) ==
    IF upto = 0 THEN <<>>
    ELSE SourceRows(pages, upto - 1)
         \o (IF pages[upto].outcome = "ok" /\ pages[upto].has_table
             THEN SourceRowsOfTable(pages[upto].rows, 2) ELSE <<>>)

\* every row after the header row of every harvested table has as many <td>
\* cells as the header row has cells
RowsAsWideAsHeader ==
    /\ header_resp.has_table
    /\ header_resp.rows # <<>>
    /\ \A k \in 1..Len(served) :
         (served[k].outcome = "ok" /\ served[k].has_table) =>
             \A i \in 2..Len(served[k].rows) :
                 Len(Cols(served[k].rows[i])) = Len(header_resp.rows[1])

\* C7 (as claimed): over pages whose rows are as wide as the header row, every
\* emitted row of an enriched harvest is as long as the extended header.
C7_RowsMatchHeader ==
    (script \in EnrichedScripts /\ pc = "header" /\ header.found /\ RowsAsWideAsHeader)
        => \A i \in 1..Len(result) : Len(result[i]) = Len(header.cols)

\* what the script takes for a detail link in the last cell of a row
HoldsDetailLink(sc, cell) ==
    IF sc = "logs" THEN HasMarker(cell)
    ELSE cell.anchors # <<>> /\ HrefTruthy(cell.anchors[1].href)

\* C8 (as claimed): of two table rows with the same number of cells, one with
\* a detail link in its last cell and one without, the emitted rows have the
\* same number of non-detail cells, each followed by three detail fields, which
\* are absent for the row without a link.
C8_SameNonDetailCount ==
    (script \in EnrichedScripts /\ Returned) =>
        LET src == SourceRows(served, Len(served))
        IN  Len(src) = Len(result) =>
              \A i, j \in 1..Len(src) :
                 ( /\ Len(src[i]) = Len(src[j])
                   /\ HoldsDetailLink(script, src[i][Len(src[i])])
                   /\ ~HoldsDetailLink(script, src[j][Len(src[j])]) )
                 => /\ Len(result[i]) - 3 = Len(result[j]) - 3
                    /\ SubSeq(result[j], Len(result[j]) - 2, Len(result[j]))
                         = <<None, None, None>>

\* the row the loop of scrape_category has just processed holds data cells
RowJustProcessed == pc = "rows" /\ ri > 2 /\ Cols(page.rows[ri - 1]) # <<>>

\* C19 (as claimed): in scrape_practitioners_with_logs, whenever the last cell
\* of a row holds an anchor carrying the detail marker, that cell is removed
\* from the row and the detail page fetched is the href of the marked anchor
\* resolved against the current page URL, also when the cell holds other
\* anchors before the marked one.
C19_MarkedAnchorFollowed ==
    (script = "logs" /\ RowJustProcessed) =>
        LET cols == Cols(page.rows[ri - 1])
            last == cols[Len(cols)]
            marked == {i \in 1..Len(last.anchors) :
                         last.anchors[i].marker /\ HrefTruthy(last.anchors[i].href)}
        IN  marked # {} =>
              /\ Len(all_data[Len(all_data)]) = Len(cols) - 1 + 3
              /\ \E i \in marked : detail_url = UrlJoin(current_url, last.anchors[i].href)

\* the number of <tr> of index 2..upto that hold a <td>
RECURSIVE CountTdRows(_, _)
CountTdRows(rows, upto) ==
    IF upto < 2 THEN 0
    ELSE CountTdRows(rows, upto - 1)
         + (IF \E c \in 1..Len(rows[upto]) : rows[upto][c].tag = "td" THEN 1 ELSE 0)

\* the number of such rows the loop has gone past
RECURSIVE RowsPassed(_)
RowsPassed(k) ==
    IF k = 0 THEN 0
    ELSE RowsPassed(k - 1)
         + (IF served[k].outcome = "ok" /\ served[k].has_table
            THEN CountTdRows(served[k].rows,
                             IF k = Len(served) /\ pc = "rows"
                             THEN ri - 1 ELSE Len(served[k].rows))
            ELSE 0)

\* C10: in a harvest with detail pages, every table row with a data cell has
\* given exactly one emitted row, whatever the outcome of its detail fetch.
C10_OneRowPerTableRow ==
    script \in {"logs", "details", "fullname"} => Len(all_data) = RowsPassed(Len(served))

C10_Witness ==
    /\ script \in {"logs", "details", "fullname"}
    /\ pc = "rows"
    /\ detail_resp.outcome \in {"raise", "status"}
    /\ details = AbsentDetails(script)
    /\ Len(all_data) = 2

----------------------------------------------------------------------------
(* scrape_details on its own: the inputs and the call *)

MaxDetailRows == 2      \* rows of a detail page's table

L_LicenceNo    == <<" ","L","i","c","e","n","c","e"," ","N","o">>
L_PracticeType == <<"P","r","a","c","t","i","c","e"," ","T","y","p","e">>
L_LicenseType  == <<"L","I","C","E","N","S","E"," ","T","Y","P","E",":">>
L_Both         == <<"P","r","a","c","t","i","c","e"," ","T","y","p","e",
                    "/","L","i","c","e","n","c","e"," ","N","o">>
V_IN           == <<" ","I","N","-","2"," ">>
V_G            == <<" ","G","-","3">>

DetailLabels == {L_LicenseNo, L_LicenceNo, L_PracticeType, L_LicenseType, L_Name, L_Both}

DetailRows ==
    {DRow(2, l, t) : l \in DetailLabels, t \in {V_PH, <<>>}}
    \cup {DRowInput(2, l, V_PH, V_IN) : l \in DetailLabels}
    \cup {[ncells |-> 2, label |-> l, text |-> V_PH,
           input |-> [present |-> TRUE, has_value |-> FALSE, value |-> <<>>]] : l \in DetailLabels}
    \cup {DRow(1, L_LicenseNo, <<>>)}

RECURSIVE SeqsUpTo(_, _)
SeqsUpTo(S, n) ==
    IF n = 0 THEN {<<>>}
    ELSE LET shorter == SeqsUpTo(S, n - 1)
         IN  shorter \cup {Append(q, x) : q \in shorter, x \in S}

DetailGroups ==
    { <<>>,
      <<[has_label |-> TRUE, label |-> L_LicenseNo, has_div |-> TRUE, value |-> V_G]>>,
      <<[has_label |-> TRUE, label |-> L_Name, has_div |-> TRUE, value |-> V_G]>>,
      <<[has_label |-> FALSE, label |-> <<>>, has_div |-> TRUE, value |-> V_G]>> }

DetailPages ==
    {DetailOk(rows, gs) : rows \in SeqsUpTo(DetailRows, MaxDetailRows), gs \in DetailGroups}
    \cup {[outcome |-> "ok", has_table |-> FALSE, rows |-> <<>>, groups |-> gs] :
             gs \in DetailGroups}
    \cup HarvestDetailPages

InitDetail ==
    /\ script \in {"logs", "details", "fullname"}
    /\ inputs = "detail"
    /\ pc = "detail_call"
    /\ current_url = SeedUrl
    /\ page = NoPage
    /\ ri = 0
    /\ all_data = <<>>
    /\ fetched = <<>>
    /\ served = <<>>
    /\ next_link = None
    /\ result = <<>>
    /\ header = NoHeader
    /\ frame = "none"
    /\ detail_resp \in DetailPages
    /\ details = NoDetails
    /\ detail_url = <<"d", "">>
    /\ header_resp = NoPage
    /\ raised_by = "none"
    /\ OffsetIdle
    /\ io = <<>>
    /\ HelloIdle

\* details = scrape_details(detail_link)
CallScrapeDetails ==
    /\ pc = "detail_call"
    /\ details' = ScrapeDetails(script, detail_resp)
    /\ io' = Append(io, "get")
    /\ IF details' = RaisedExc
       THEN pc' = "raised" /\ raised_by' = "details"
       ELSE pc' = "detail_done" /\ UNCHANGED raised_by
    /\ UNCHANGED <<script, inputs, current_url, page, ri, all_data, fetched, served,
                   next_link, result, header, frame, detail_resp, detail_url, header_resp,
                   offsetVars, helloVars>>

SpecDetail == InitDetail /\ [][CallScrapeDetails]_vars

\* the label holds one of the substrings scrape_details looks for
KnownLabel(l) ==
    \E n \in {T_practice_type, T_licence_type, T_license_type, T_licence_no, T_license_no} :
        Contains(Lower(Strip(l)), n)

\* no label the script reads on the page matches
NoLabelMatches(sc, resp) ==
    /\ \A i \in 1..Len(resp.rows) : resp.rows[i].ncells >= 2 => ~KnownLabel(resp.rows[i].label)
    /\ sc = "logs" =>
         \A i \in 1..Len(resp.groups) :
            (resp.groups[i].has_label /\ resp.groups[i].has_div)
                => ~KnownLabel(resp.groups[i].label)

\* C9: scrape_details never raises, and when the fetch raises or returns a
\* non-success status, or no label of the page matches, the three fields
\* Practice_Type, Licence_Type and Licence_No of its record are all absent.
C9_FailureGivesAbsent ==
    /\ pc # "raised"
    /\ (pc = "detail_done" /\ script \in EnrichedScripts
        /\ (detail_resp.outcome \in {"raise", "status"} \/ NoLabelMatches(script, detail_resp)))
       => details = [Practice_Type |-> None, Licence_Type |-> None, Licence_No |-> None]

C9_Witness ==
    /\ pc = "detail_done"
    /\ script \in EnrichedScripts
    /\ detail_resp.outcome = "ok"
    /\ Len(detail_resp.rows) = 2
    /\ detail_resp.groups # <<>>
    /\ NoLabelMatches(script, detail_resp)
    /\ details = AbsentRecord

\* the label/value rows of the page: the table rows with two cells or more
LabelValueRows(resp) == SelectSeq(resp.rows, LAMBDA r : r.ncells >= 2)

\* the page has one label/value row and no label/value group
OneLabelValueRow(resp) ==
    /\ resp.outcome = "ok"
    /\ resp.has_table
    /\ Len(LabelValueRows(resp)) = 1
    /\ \A i \in 1..Len(resp.groups) : ~(resp.groups[i].has_label /\ resp.groups[i].has_div)

\* the label names the licence number, after trimming and lower-casing
NamesLicenceNo(l) ==
    Contains(Lower(Strip(l)), T_licence_no) \/ Contains(Lower(Strip(l)), T_license_no)

\* the label names the practice type or the licence type
NamesAType(l) ==
    \E n \in {T_practice_type, T_licence_type, T_license_type} : Contains(Lower(Strip(l)), n)

\* what a row offers as its value: the trimmed text of the value cell, or the
\* trimmed value attribute of an input in it
RowValues(row) ==
    {Strip(row.text)} \cup (IF row.input.present /\ row.input.has_value
                            THEN {Strip(row.input.value)} ELSE {})

\* the record holds a value of the row as Licence_No and nothing else
OnlyLicenceNo(d, row) ==
    /\ d.Licence_No \in RowValues(row)
    /\ d.Practice_Type = None
    /\ d.Licence_Type = None

\* C11 (as claimed): for a page whose only label/value row has a label that
\* contains "license no" or "licence no", scrape_details returns that row's
\* value as Licence_No, and Practice_Type and Licence_Type absent.
C11_LicenceNoOnly ==
    (pc = "detail_done" /\ script \in EnrichedScripts /\ OneLabelValueRow(detail_resp)
     /\ NamesLicenceNo(LabelValueRows(detail_resp)[1].label))
        => OnlyLicenceNo(details, LabelValueRows(detail_resp)[1])

\* C11 (amended): the same, for a label that contains neither "practice type"
\* nor "licence type" nor "license type", which the if / elif chain tests first.
C11_LicenceNoOnlyUnlessType ==
    (pc = "detail_done" /\ script \in EnrichedScripts /\ OneLabelValueRow(detail_resp)
     /\ NamesLicenceNo(LabelValueRows(detail_resp)[1].label)
     /\ ~NamesAType(LabelValueRows(detail_resp)[1].label))
        => OnlyLicenceNo(details, LabelValueRows(detail_resp)[1])

C11_Witness ==
    /\ pc = "detail_done"
    /\ script \in EnrichedScripts
    /\ OneLabelValueRow(detail_resp)
    /\ LabelValueRows(detail_resp)[1].label = L_LicenseNo
    /\ details = [Practice_Type |-> None, Licence_Type |-> None, Licence_No |-> V_PH]

\* the label is one the script assigns a field for
MatchedLabel(sc, l) == IF sc = "fullname" THEN NamesLicenceNo(l) ELSE KnownLabel(l)

\* the value cell of the row holds an input with a value attribute and text
HoldsInputAndText(row) ==
    row.input.present /\ row.input.has_value /\ Strip(row.text) # <<>>

\* C12 (as claimed): in every scrape_details variant, when the value cell of
\* the matched label row holds both an input with a value attribute and plain
\* text, the field is assigned the input's value, not the cell's text.
C12_InputValuePreferred ==
    (pc = "detail_done" /\ OneLabelValueRow(detail_resp)
     /\ MatchedLabel(script, LabelValueRows(detail_resp)[1].label)
     /\ HoldsInputAndText(LabelValueRows(detail_resp)[1]))
        => LET row == LabelValueRows(detail_resp)[1]
           IN  /\ \E f \in DOMAIN details : details[f] = Strip(row.input.value)
               /\ \A f \in DOMAIN details : details[f] # Strip(row.text)

----------------------------------------------------------------------------
(* scrape_pharmacists_paginated: get_total_entries, scrape_page and main *)

PageLength == 100
MaxRequests == 3        \* scrape_page calls of one run

Digits == <<"0","1","2","3","4","5","6","7","8","9">>
IsDigit(c) == \E i \in 1..10 : Digits[i] = c
DigitValue(c) == (CHOOSE i \in 1..10 : Digits[i] = c) - 1
T_of == <<"o","f">>
T_entries == <<"e","n","t","r","i","e","s">>

\* \s+ from i on: the index after the longest run of white space
SpaceEnd(text, i) ==
    First({j \in i..(Len(text) + 1) :
             /\ \A k \in i..(j - 1) : IsSpace(text[k])
             /\ j = Len(text) + 1 \/ ~IsSpace(text[j])})

IsDigitOrComma(c) == IsDigit(c) \/ c = ","

\* [\d,]+ from i on: the index after the longest run of digits and commas
DigitsEnd(text, i) ==
    First({j \in i..(Len(text) + 1) :
             /\ \A k \in i..(j - 1) : IsDigitOrComma(text[k])
             /\ j = Len(text) + 1 \/ ~IsDigitOrComma(text[j])})

\* MatchAt with a defect: the pattern is of\s*([\d,]+)\s+entries
MatchAtOptionalSpace(text, i) ==
    IF i + 1 > Len(text) \/ SubSeq(text, i, i + 1) # T_of
    THEN [ok |-> FALSE, group |-> <<>>]
    ELSE LET a == SpaceEnd(text, i + 2)
             b == DigitsEnd(text, a)
             c == SpaceEnd(text, b)
         IN  [ok    |-> /\ b > a
                        /\ c > b
                        /\ c + 6 <= Len(text)
                        /\ SubSeq(text, c, c + 6) = T_entries,
              group |-> SubSeq(text, a, b - 1)]

\* the match of of\s+([\d,]+)\s+entries that starts at i: [ok, group]
MatchAt(text, i) ==
    IF i + 1 > Len(text) \/ SubSeq(text, i, i + 1) # T_of
    THEN [ok |-> FALSE, group |-> <<>>]
    ELSE LET a == SpaceEnd(text, i + 2)
             b == DigitsEnd(text, a)
             c == SpaceEnd(text, b)
         IN  [ok    |-> /\ a > i + 2
                        /\ b > a
                        /\ c > b
                        /\ c + 6 <= Len(text)
                        /\ SubSeq(text, c, c + 6) = T_entries,
              group |-> SubSeq(text, a, b - 1)]

\* str.replace(",", "")
RemoveCommas(t) == SelectSeq(t, LAMBDA c : c # ",")

\* int(s) of a string of digits
RECURSIVE ParseDigits(_)
ParseDigits(t) ==
    IF t = <<>> THEN 0 ELSE 10 * ParseDigits(Front(t)) + DigitValue(t[Len(t)])

\* get_total_entries(soup); info is the text of div.dataTables_info, or None
GetTotalEntries(info) ==
    IF info = None THEN NoTotal
    ELSE LET text == Strip(info)
             hits == {i \in 1..Len(text) : MatchAt(text, i).ok}
         IN  IF hits = {} THEN NoTotal
             ELSE LET total_str == RemoveCommas(MatchAt(text, First(hits)).group)
                  IN  IF total_str = <<>> THEN NoTotal
                      ELSE [found |-> TRUE, value |-> ParseDigits(total_str)]

\* A response to scrape_page's GET is
\*   [outcome, info, has_table, has_header_row, cols, nrows, width]
\* cols: the texts of the header row; nrows: the number of <tr> after it that
\* hold a <td>; width: the number of <td> of each.
\* scrape_page returns no data when the status is not 200, or the page has no
\* table, or the table has no row
PageFailed(resp) == resp.outcome # "ok" \/ ~resp.has_table \/ ~resp.has_header_row

\* LoopStops with a defect: the range runs up to total_entries inclusive
LoopStopsInclusive(start, total, failed) == start > total

\* the for loop over range(100, total_entries, 100) is over
LoopStops(start, total, failed) == start >= total

\* 'Showing 1 to 100 of 8,640 entries'
I_8640 == <<"S","h","o","w","i","n","g"," ","1"," ","t","o"," ","1","0","0"," ",
              "o","f"," ","8",",","6","4","0"," ","e","n","t","r","i","e","s">>
\* ' of 250 entries '
I_250 == <<" ","o","f"," ","2","5","0"," ","e","n","t","r","i","e","s"," ">>
\* '1 of 2 of 150 entries'
I_two == <<"1"," ","o","f"," ","2"," ","o","f"," ","1","5","0"," ","e","n","t",
              "r","i","e","s">>
\* 'of , entries'
I_comma == <<"o","f"," ",","," ","e","n","t","r","i","e","s">>
\* 'of 200 entries'
I_200 == <<"o","f"," ","2","0","0"," ","e","n","t","r","i","e","s">>
\* '250 entries'
I_none == <<"2","5","0"," ","e","n","t","r","i","e","s">>

OffsetInfos == {None, I_8640, I_250, I_200, I_two, I_comma, I_none}

C_Name    == <<"F","u","l","l"," ","N","a","m","e">>
C_Licence == <<"L","i","c","e","n","s","e"," ","N","o">>
C_Id      == <<"I","D">>

OffsetResponse(o, info, ht, hh, cols, n, w) ==
    [outcome |-> o, info |-> info, has_table |-> ht, has_header_row |-> hh,
     cols |-> cols, nrows |-> n, width |-> w]

OffsetFailures ==
    { OffsetResponse("raise", None, FALSE, FALSE, <<>>, 0, 0),
      OffsetResponse("status", None, FALSE, FALSE, <<>>, 0, 0),
      OffsetResponse("ok", I_250, FALSE, FALSE, <<>>, 0, 0),
      OffsetResponse("ok", I_250, TRUE, FALSE, <<>>, 0, 0) }

FirstPages ==
    {OffsetResponse("ok", info, TRUE, TRUE, cols, n, 2) :
        info \in OffsetInfos, cols \in {<<C_Name, C_Licence>>, <<C_Id>>}, n \in {0, 100, 250}}
    \cup OffsetFailures

LaterPages ==
    {OffsetResponse("ok", None, TRUE, TRUE, <<C_Name, C_Licence>>, n, w) :
        n \in {0, 100}, w \in {2, 3}}
    \cup OffsetFailures

InitOffset ==
    /\ script = "paginated"
    /\ inputs = "offset"
    /\ pc = "o_first"
    /\ current_url = SeedUrl
    /\ page = NoPage
    /\ ri = 0
    /\ all_data = <<>>
    /\ fetched = <<>>
    /\ served = <<>>
    /\ next_link = None
    /\ result = <<>>
    /\ header = NoHeader
    /\ frame = "none"
    /\ detail_resp = NoDetailResp
    /\ details = NoDetails
    /\ detail_url = None
    /\ header_resp = NoPage
    /\ raised_by = "none"
    /\ OffsetIdle
    /\ io = <<>>
    /\ HelloIdle

offsetUnchanged == <<script, inputs, current_url, page, ri, all_data, fetched, served,
                     next_link, result, detail_resp, details, detail_url, header_resp,
                     helloVars>>

\* main: header, data, total_entries = scrape_page(0, 100) and what follows it
\* up to the for loop
FirstPage ==
    /\ pc = "o_first"
    /\ io' = Append(io, "get")
    /\ \E resp \in FirstPages :
        /\ o_requests' = Append(o_requests, 0)
        /\ o_failed' = Append(o_failed, resp.outcome = "raise" \/ PageFailed(resp))
        /\ IF resp.outcome = "raise"
           THEN /\ pc' = "raised"
                /\ raised_by' = "scrape_page"
                /\ UNCHANGED <<o_start, o_total, o_rows, header, frame, o_info>>
           ELSE IF PageFailed(resp)
           THEN /\ pc' = "done"
                /\ frame' = "not_written"
                /\ o_info' = (IF resp.outcome = "ok" THEN resp.info ELSE o_info)
                /\ UNCHANGED <<o_start, o_total, o_rows, header, raised_by>>
           ELSE /\ pc' = "o_loop"
                /\ header' = [found |-> TRUE, cols |-> resp.cols]
                /\ o_total' = (IF GetTotalEntries(resp.info).found
                               THEN GetTotalEntries(resp.info)
                               ELSE [found |-> FALSE, value |-> resp.nrows])
                /\ o_rows' = (IF resp.nrows > 0
                              THEN <<[start |-> 0, n |-> resp.nrows, width |-> resp.width]>>
                              ELSE <<>>)
                /\ o_start' = PageLength
                /\ o_info' = resp.info
                /\ UNCHANGED <<frame, raised_by>>
    /\ UNCHANGED offsetUnchanged

\* one iteration of `for start in range(100, total_entries, 100)`
LoopPage ==
    /\ pc = "o_loop"
    /\ ~LoopStops(o_start, o_total.value, o_failed)
    /\ Len(o_requests) < MaxRequests
    /\ \E resp \in LaterPages :
        /\ o_requests' = Append(o_requests, o_start)
        /\ o_failed' = Append(o_failed, resp.outcome = "raise" \/ PageFailed(resp))
        /\ IF resp.outcome = "raise"
           THEN /\ pc' = "raised"
                /\ raised_by' = "scrape_page"
                /\ io' = Append(io, "get")
                /\ UNCHANGED <<o_start, o_rows>>
           ELSE /\ o_rows' = (IF ~PageFailed(resp) /\ resp.nrows > 0
                              THEN Append(o_rows, [start |-> o_start, n |-> resp.nrows,
                                                    width |-> resp.width])
                              ELSE o_rows)
                /\ o_start' = o_start + PageLength
                /\ io' = io \o <<"get", "sleep">>
                /\ UNCHANGED <<pc, raised_by>>
    /\ UNCHANGED <<o_total, header, frame, o_info>>
    /\ UNCHANGED offsetUnchanged

T_name    == <<"n","a","m","e">>
T_licence == <<"l","i","c","e","n","c","e">>
T_license == <<"l","i","c","e","n","s","e">>

\* the widest chunk of rows
RECURSIVE ChunksWidth(_)
ChunksWidth(chunks) ==
    IF chunks = <<>> THEN 0
    ELSE LET w == ChunksWidth(Tail(chunks))
         IN  IF Head(chunks).width > w THEN Head(chunks).width ELSE w

\* main after the loop: the DataFrame, the choice of the two columns and the
\* write of the file
FinishOffset ==
    /\ pc = "o_loop"
    /\ LoopStops(o_start, o_total.value, o_failed)
    /\ LET labeled == o_rows = <<>> \/ Len(header.cols) = ChunksWidth(o_rows)
           has_name == \E i \in 1..Len(header.cols) : Contains(Lower(header.cols[i]), T_name)
           has_lic  == \E i \in 1..Len(header.cols) :
                          \/ Contains(Lower(header.cols[i]), T_licence)
                          \/ Contains(Lower(header.cols[i]), T_license)
       IN  IF ~has_name \/ ~has_lic
           THEN /\ pc' = "done"
                /\ frame' = "not_written"
                /\ UNCHANGED raised_by
           ELSE IF labeled
           THEN /\ pc' = "done"
                /\ frame' = "labeled"
                /\ UNCHANGED raised_by
           ELSE /\ pc' = "raised"
                /\ raised_by' = "frame"
                /\ frame' = "unlabeled"
    /\ UNCHANGED <<o_start, o_total, o_rows, o_requests, o_failed, header, io, o_info>>
    /\ UNCHANGED offsetUnchanged

OffsetNext == FirstPage \/ LoopPage \/ FinishOffset

SpecOffset == InitOffset /\ [][OffsetNext]_vars

\* C5 (as claimed): after scrape_page has failed for an offset, no request
\* for a later offset is issued.
C5_FailedPageIsTerminal ==
    \A i \in 1..Len(o_requests) : o_failed[i] => i = Len(o_requests)

\* the for loop of main is over
LoopOver == pc = "done" \/ (pc = "raised" /\ raised_by = "frame")

C18_UnparsedUsesFirstPageOnly ==
    (o_requests # <<>> /\ ~o_total.found) => o_requests = <<0>>

----------------------------------------------------------------------------
(* get_total_entries on its own: the inputs and the call *)

\* the pieces the summary strings are put together from
P_Showing == <<"S","h","o","w","i","n","g"," ","1"," ","t","o"," ","1","0","0"," ">>
P_of2     == <<"1"," ","o","f"," ","2"," ">>
P_ofc     == <<"o","f"," ",","," ","e","n","t","r","i","e","s"," ">>
W_Of      == <<"O","f">>
D_8640    == <<"8",",","6","4","0">>
D_250     == <<"2","5","0">>
D_007     == <<"0","0","7">>
D_1c2c    == <<"1",",","2",",">>
D_12a     == <<"1","2","a">>
W_entry   == <<"e","n","t","r","y">>
W_Entries == <<"E","n","t","r","i","e","s">>
Q_filtered == <<" ","(","f","i","l","t","e","r","e","d",")">>

TotalInfos ==
    {p \o w \o s1 \o d \o s2 \o e \o q :
        p  \in {<<>>, <<" ">>, P_Showing, P_of2, P_ofc},
        w  \in {T_of, W_Of},
        s1 \in {<<>>, <<" ">>, <<" ", "\t">>},
        d  \in {D_8640, D_250, D_007, D_1c2c, D_12a, <<",">>, <<>>},
        s2 \in {<<>>, <<" ">>, <<"\n", " ">>},
        e  \in {T_entries, W_entry, W_Entries},
        q  \in {<<>>, Q_filtered}}

InitTotal ==
    /\ script = "paginated"
    /\ inputs = "total"
    /\ pc = "total_call"
    /\ current_url = SeedUrl
    /\ page = NoPage
    /\ ri = 0
    /\ all_data = <<>>
    /\ fetched = <<>>
    /\ served = <<>>
    /\ next_link = None
    /\ result = <<>>
    /\ header = NoHeader
    /\ frame = "none"
    /\ detail_resp = NoDetailResp
    /\ details = NoDetails
    /\ detail_url = None
    /\ header_resp = NoPage
    /\ raised_by = "none"
    /\ o_start = 0
    /\ o_total = NoTotal
    /\ o_rows = <<>>
    /\ o_requests = <<>>
    /\ o_failed = <<>>
    /\ o_info \in TotalInfos
    /\ io = <<>>
    /\ HelloIdle

\* total_entries = get_total_entries(soup)
CallGetTotalEntries ==
    /\ pc = "total_call"
    /\ o_total' = GetTotalEntries(o_info)
    /\ pc' = "total_done"
    /\ UNCHANGED <<o_start, o_rows, o_requests, o_failed, o_info, header, frame,
                   raised_by, io>>
    /\ UNCHANGED offsetUnchanged

SpecTotal == InitTotal /\ [][CallGetTotalEntries]_vars

\* text[i..j-1] is a non-empty run of characters of the set S
RunOf(text, i, j, S) == j > i /\ \A k \in i..(j - 1) : text[k] \in S

DigitChars == {"0","1","2","3","4","5","6","7","8","9"}

WhiteChars == {" ", "\t", "\n"}

\* the places <<a, b>> of a D after the "of" at i: white space, D = text[a..b-1]
\* made of digits and separators, white space, "entries"
PlacesAfterOf(text, i) ==
    {ab \in {a \in (i + 3)..Len(text) : RunOf(text, i + 2, a, WhiteChars)}
              \X ((i + 4)..(Len(text) + 1)) :
        /\ RunOf(text, ab[1], ab[2], DigitChars \cup {","})
        /\ \E c \in (ab[2] + 1)..(Len(text) - 6) :
              /\ RunOf(text, ab[2], c, WhiteChars)
              /\ SubSeq(text, c, c + 6) = <<"e","n","t","r","i","e","s">>}

\* the places of a D in the text, after any "of"
PlacesOfD(text) ==
    UNION {PlacesAfterOf(text, i) :
             i \in {k \in 1..(Len(text) - 1) : text[k] = "o" /\ text[k + 1] = "f"}}

\* the integer a string of digits and separators denotes once the separators
\* are deleted, read from the left
RECURSIVE ValueOfD(_, _)
ValueOfD(d, acc) ==
    IF d = <<>> THEN acc
    ELSE IF Head(d) = "," THEN ValueOfD(Tail(d), acc)
    ELSE ValueOfD(Tail(d), 10 * acc + DigitValue(Head(d)))

HoldsDigit(d) == \E k \in 1..Len(d) : d[k] \in DigitChars

\* what the claim gives for the D at <<a, b>>
TotalOfD(text, ab) ==
    LET d == SubSeq(text, ab[1], ab[2] - 1)
    IN  IF HoldsDigit(d) THEN [found |-> TRUE, value |-> ValueOfD(d, 0)] ELSE NoTotal

\* C17: get_total_entries gives, for a summary string of the form
\* "... of D entries" with D made of digits and thousands separators, the
\* integer obtained by deleting the separators from D, and absent when the
\* pattern does not match or D holds no digit.
C17_TotalParsed ==
    (pc = "total_done" /\ o_info # None) =>
        IF PlacesOfD(o_info) = {} THEN o_total = NoTotal
        ELSE \E ab \in PlacesOfD(o_info) : o_total = TotalOfD(o_info, ab)

C17_Witness ==
    /\ pc = "total_done"
    /\ o_info = P_Showing \o T_of \o <<" ">> \o D_8640 \o <<" ">> \o T_entries
    /\ o_total = [found |-> TRUE, value |-> 8640]

----------------------------------------------------------------------------
(* hello.py: scrape_hcpcs_codes and scrape_all_groups *)

MaxGroups == 3          \* length of the list scrape_all_groups is called with

K_A1   == <<" ","A","1">>
K_A2   == <<"A","2"," ">>
K_Desc == <<"d","e","s","c">>
K_Code == <<"C","o","d","e">>

Hdr_Codes == <<TH(K_Code), TH(K_Desc)>>
Row_A1    == <<TD(K_A1), TD(K_Desc)>>
Row_A2    == <<TD(K_A2), TD(<<>>), TD(X_a)>>
Row_Mixed == <<TH(X_a), TD(K_A2), TD(K_Desc)>>

\* A response to the GET of scrape_hcpcs_codes is [outcome, has_table, rows],
\* rows being the <tr> of the first table as for a main page.
HelloResponse(o, ht, rows) == [outcome |-> o, has_table |-> ht, rows |-> rows]

HelloPages ==
    { HelloResponse("raise", FALSE, <<>>),
      HelloResponse("status", TRUE, <<Hdr_Codes, Row_A1>>),
      HelloResponse("ok", FALSE, <<>>),
      HelloResponse("ok", TRUE, <<Hdr_Codes>>),
      HelloResponse("ok", TRUE, <<Hdr_Codes, Row_One, Row_Th>>),
      HelloResponse("ok", TRUE, <<Hdr_Codes, Row_A1>>),
      HelloResponse("ok", TRUE, <<Hdr_Codes, Row_A2, Row_One, Row_A1>>),
      HelloResponse("ok", TRUE, <<Hdr_Codes, Row_Th, Row_Mixed>>) }

\* for row in rows[1:]: the rows with two <td> or more give a code
RECURSIVE CodesOfRows(_, _)
CodesOfRows(rows, i) ==
    IF i > Len(rows) THEN <<>>
    ELSE LET cols == Cols(rows[i])
         IN  IF Len(cols) >= 2
             THEN <<[Code |-> Strip(cols[1].text), Description |-> Strip(cols[2].text)]>>
                  \o CodesOfRows(rows, i + 1)
             ELSE CodesOfRows(rows, i + 1)

\* scrape_hcpcs_codes(url), resp being the response to its GET: the list
\* returned, or the exception of requests.get
ScrapeHcpcsCodes(resp) ==
    IF resp.outcome = "raise" THEN [raised |-> TRUE, codes |-> <<>>]
    ELSE IF resp.outcome # "ok" THEN [raised |-> FALSE, codes |-> <<>>]
    ELSE IF ~resp.has_table THEN [raised |-> FALSE, codes |-> <<>>]
    ELSE [raised |-> FALSE, codes |-> CodesOfRows(resp.rows, 2)]

InitHello ==
    /\ script = "hello"
    /\ inputs = "hello"
    /\ pc = "h_loop"
    /\ current_url = SeedUrl
    /\ page = NoPage
    /\ ri = 0
    /\ all_data = <<>>
    /\ fetched = <<>>
    /\ served = <<>>
    /\ next_link = None
    /\ result = <<>>
    /\ header = NoHeader
    /\ frame = "none"
    /\ detail_resp = NoDetailResp
    /\ details = NoDetails
    /\ detail_url = None
    /\ header_resp = NoPage
    /\ raised_by = "none"
    /\ OffsetIdle
    /\ io = <<>>
    /\ h_groups \in SeqsUpTo(GroupNames, MaxGroups)
    /\ h_requests = <<>>
    /\ h_served = <<>>
    /\ h_data = NoGroupData

helloUnchanged == <<script, inputs, current_url, page, ri, all_data, fetched, served,
                    next_link, result, header, frame, detail_resp, details, detail_url,
                    header_resp, offsetVars, h_groups>>

\* group_data[group] = codes
SetGroup(data, group, codes) ==
    [data EXCEPT ![group] = [present |-> TRUE, codes |-> codes]]

\* one iteration of `for group in groups`
ScrapeGroup ==
    /\ pc = "h_loop"
    /\ Len(h_requests) < Len(h_groups)
    /\ LET group == h_groups[Len(h_requests) + 1]
       IN  \E resp \in HelloPages :
             LET ret   == ScrapeHcpcsCodes(resp)
                 codes == ret.codes
             IN  /\ h_requests' = Append(h_requests, group)
                 /\ h_served' = Append(h_served, resp)
                 /\ IF ret.raised
                    THEN /\ pc' = "raised"
                         /\ raised_by' = "scrape_hcpcs_codes"
                         /\ io' = Append(io, "get")
                         /\ UNCHANGED h_data
                    ELSE /\ h_data' = (IF codes # <<>> THEN SetGroup(h_data, group, codes)
                                       ELSE h_data)
                         /\ io' = io \o <<"get", "sleep">>
                         /\ UNCHANGED <<pc, raised_by>>
    /\ UNCHANGED helloUnchanged

\* return group_data
ReturnGroups ==
    /\ pc = "h_loop"
    /\ Len(h_requests) = Len(h_groups)
    /\ pc' = "h_returned"
    /\ UNCHANGED <<h_requests, h_served, h_data, raised_by, io>>
    /\ UNCHANGED helloUnchanged

HelloNext == ScrapeGroup \/ ReturnGroups

SpecHello == InitHello /\ [][HelloNext]_vars

\* the codes a table gives, read off its rows: for every <tr> after the first
\* with two <td> or more, the trimmed texts of the first two
RECURSIVE TableCodes(_, _)
TableCodes(rows, i) ==
    IF i > Len(rows) THEN <<>>
    ELSE LET texts == TdTexts(rows[i])
         IN  (IF Len(texts) >= 2
              THEN <<[Code |-> texts[1], Description |-> texts[2]]>> ELSE <<>>)
             \o TableCodes(rows, i + 1)

\* the codes the k-th fetch yielded; none when the fetch failed
YieldOf(k) ==
    IF h_served[k].outcome = "ok" /\ h_served[k].has_table
    THEN TableCodes(h_served[k].rows, 2) ELSE <<>>

\* the fetches of group g that yielded a code
YieldingFetches(g) == {k \in 1..Len(h_served) : h_groups[k] = g /\ YieldOf(k) # <<>>}

Last(S) == CHOOSE i \in S : \A j \in S : j <= i

\* C20 (as claimed): scrape_all_groups fetches each group of its list once, in
\* list order, continuing with the next group after a group whose fetch fails
\* or yields no codes; the mapping returned holds exactly the groups that
\* yielded a code, each mapped to its codes in table row order.
C20_EveryGroupFetched ==
    /\ \A k \in 1..Len(h_requests) : k <= Len(h_groups) /\ h_requests[k] = h_groups[k]
    /\ pc # "h_loop" =>
          /\ pc = "h_returned"
          /\ h_requests = h_groups
          /\ \A g \in GroupNames :
                /\ h_data[g].present <=> YieldingFetches(g) # {}
                /\ h_data[g].present => h_data[g].codes = YieldOf(Last(YieldingFetches(g)))

====
